---- MODULE Spec2Model ----
(* A model of scripts/aurora_plate_scraper.py: the retrying transport, venue   *)
(* discovery, the panel parser with its nutrition cache, and main's per-venue  *)
(* loop.  Text is modelled as a sequence of one-character strings so that the  *)
(* conversions the code performs (int(), str(), strip(), lower()) are computed *)
(* rather than assumed.  An optional value is <<>> (None) or <<v>>.            *)
EXTENDS Integers, Sequences, FiniteSets, TLC

VARIABLES
    pc,               \* position of the modelled run
    outcomes,         \* request_with_retry: the outcome of each attempt, were it made
    retry,            \* request_with_retry: what the call did
    markup,           \* extract_units: the [data-unitoid] elements of the homepage
    units,            \* extract_units: the returned list
    panel,            \* "absent" | "empty" | "html": the fragment under parse
    categories,       \* parse_unit_panel: categories
    category_lookup,  \* parse_unit_panel: category_lookup
    nrows,            \* rows of the current panel consumed so far
    nutrition_cache,  \* main: nutrition_cache, shared by every venue of the run
    result,           \* what parse_unit_panel returned
    exc,              \* the exception in flight, <<>> when none
    last,             \* the row or call just processed, and what it did
    label_calls,      \* every request_with_retry call against LABEL_ENDPOINT so far
    active_units,     \* main: active_units
    skipped_units,    \* main: skipped_units
    idx,              \* main: index of the venue being processed
    dataset_units,    \* main: dataset_units
    total_items       \* main: total_items

retryVars == <<outcomes, retry>>
unitVars  == <<markup, units>>
panelVars == <<panel, categories, category_lookup, nrows, nutrition_cache,
               result, exc, last, label_calls>>
mainVars  == <<active_units, skipped_units, idx, dataset_units, total_items>>
vars == <<pc, retryVars, unitVars, panelVars, mainVars>>

-----------------------------------------------------------------------------
(* Optional values and text.                                                   *)

None == <<>>
Some(v) == <<v>>
Get(o) == o[1]

Digits == {"0", "1", "2", "3", "4", "5", "6", "7", "8", "9"}

DigitVal(c) ==
    CASE c = "0" -> 0 [] c = "1" -> 1 [] c = "2" -> 2 [] c = "3" -> 3
      [] c = "4" -> 4 [] c = "5" -> 5 [] c = "6" -> 6 [] c = "7" -> 7
      [] c = "8" -> 8 [] c = "9" -> 9

DigitChar(d) ==
    CASE d = 0 -> "0" [] d = 1 -> "1" [] d = 2 -> "2" [] d = 3 -> "3"
      [] d = 4 -> "4" [] d = 5 -> "5" [] d = 6 -> "6" [] d = 7 -> "7"
      [] d = 8 -> "8" [] d = 9 -> "9"

RECURSIVE LStrip(_)
LStrip(s) == IF s # <<>> /\ Head(s) = " " THEN LStrip(Tail(s)) ELSE s

RECURSIVE RStrip(_)
RStrip(s) ==
    IF s # <<>> /\ s[Len(s)] = " " THEN RStrip(SubSeq(s, 1, Len(s) - 1)) ELSE s

\* str.strip()
Strip(s) == RStrip(LStrip(s))

RECURSIVE DigitsValue(_, _)
DigitsValue(s, acc) ==
    IF s = <<>> THEN acc ELSE DigitsValue(Tail(s), acc * 10 + DigitVal(Head(s)))

\* int(text): surrounding blanks and one sign are accepted, then digits only;
\* anything else is a ValueError (ok = FALSE).
ParseInt(s) ==
    LET t == Strip(s)
        signed == t # <<>> /\ Head(t) \in {"-", "+"}
        body == IF signed THEN Tail(t) ELSE t
        good == body # <<>> /\ \A i \in 1..Len(body) : body[i] \in Digits
        mag == IF good THEN DigitsValue(body, 0) ELSE 0
    IN  [ok |-> good,
         val |-> IF signed /\ Head(t) = "-" THEN 0 - mag ELSE mag]

RECURSIVE NatToStr(_)
NatToStr(n) ==
    IF n < 10 THEN <<DigitChar(n)>>
    ELSE NatToStr(n \div 10) \o <<DigitChar(n % 10)>>

\* str(int)
IntToStr(n) == IF n < 0 THEN <<"-">> \o NatToStr(0 - n) ELSE NatToStr(n)

\* str.lower() on the letters the model's texts use.
LowerChar(c) ==
    CASE c = "A" -> "a" [] c = "B" -> "b" [] c = "C" -> "c" [] c = "D" -> "d"
      [] c = "F" -> "f" [] c = "G" -> "g" [] c = "H" -> "h" [] c = "L" -> "l"
      [] c = "M" -> "m" [] c = "N" -> "n" [] c = "S" -> "s" [] c = "T" -> "t"
      [] c = "U" -> "u" [] OTHER -> c

Lower(s) == [i \in 1..Len(s) |-> LowerChar(s[i])]

-----------------------------------------------------------------------------
(* Transport: request_with_retry.                                              *)

MAX_RETRIES == 3
\* time.sleep(1.5 * attempt), in tenths of a second
BackoffTenths(attempt) == 15 * attempt

\* What one attempt can do: return a 2xx response, raise a
\* requests.RequestException (a network error, or raise_for_status on a non-2xx
\* status), or raise something the except clause does not catch.
Outcome == {"ok", "ConnectionError", "HTTPError", "OtherError"}
RequestException == {"ConnectionError", "HTTPError"}

Scripts == [1..MAX_RETRIES -> Outcome]

\* The server behaviours the panel and main specifications draw from: every
\* attempt succeeds, the first fails and the second succeeds, the first two
\* fail, all three fail, and an error that is not a RequestException.
ServerScripts ==
    {<<"ok", "ok", "ok">>, <<"ConnectionError", "ok", "ok">>,
     <<"HTTPError", "ConnectionError", "ok">>,
     <<"ConnectionError", "ConnectionError", "HTTPError">>,
     <<"OtherError", "ok", "ok">>}

\* request_with_retry with the sleep taken before the budget is looked at: a
\* wait follows the last failed attempt too
RECURSIVE AttemptSleepFirst(_, _, _)
AttemptSleepFirst(outs, attempt, sleeps) ==
    IF outs[attempt] = "ok"
    THEN [ok |-> TRUE, attempts |-> attempt, sleeps |-> sleeps, exc |-> ""]
    ELSE IF outs[attempt] \in {"ConnectionError", "HTTPError"}
    THEN IF attempt = 3
         THEN [ok |-> FALSE, attempts |-> attempt,
               sleeps |-> Append(sleeps, 15 * attempt), exc |-> outs[attempt]]
         ELSE AttemptSleepFirst(outs, attempt + 1, Append(sleeps, 15 * attempt))
    ELSE [ok |-> FALSE, attempts |-> attempt, sleeps |-> sleeps,
          exc |-> outs[attempt]]

Mut_request_with_retry_SleepFirst(outs) == AttemptSleepFirst(outs, 1, <<>>)

RECURSIVE Attempt(_, _, _)
Attempt(outs, attempt, sleeps) ==
    IF attempt > MAX_RETRIES
    THEN [ok |-> FALSE, attempts |-> MAX_RETRIES, sleeps |-> sleeps,
          exc |-> "RuntimeError"]
    ELSE IF outs[attempt] = "ok"
    THEN [ok |-> TRUE, attempts |-> attempt, sleeps |-> sleeps, exc |-> ""]
    ELSE IF outs[attempt] \in RequestException
    THEN IF attempt = MAX_RETRIES
         THEN [ok |-> FALSE, attempts |-> attempt, sleeps |-> sleeps,
               exc |-> outs[attempt]]
         ELSE Attempt(outs, attempt + 1, Append(sleeps, BackoffTenths(attempt)))
    ELSE [ok |-> FALSE, attempts |-> attempt, sleeps |-> sleeps,
          exc |-> outs[attempt]]

request_with_retry(outs) == Attempt(outs, 1, <<>>)

SpecRetryInit ==
    /\ pc = "retry_call"
    /\ outcomes \in Scripts
    /\ retry = None
    /\ markup = <<>> /\ units = <<>>
    /\ panel = "absent" /\ categories = <<>> /\ category_lookup = {}
    /\ nrows = 0 /\ nutrition_cache = {} /\ result = <<>> /\ exc = None
    /\ last = [op |-> "none"] /\ label_calls = <<>>
    /\ active_units = <<>> /\ skipped_units = <<>> /\ idx = 0
    /\ dataset_units = <<>> /\ total_items = 0

\* One call of request_with_retry, its attempts answered by `outcomes`.
CallRequestWithRetry ==
    /\ pc = "retry_call"
    /\ retry' = Some(request_with_retry(outcomes))
    /\ pc' = "retry_done"
    /\ UNCHANGED <<outcomes, unitVars, panelVars, mainVars>>

SpecRetryNext == CallRequestWithRetry

SpecRetry == SpecRetryInit /\ [][SpecRetryNext]_vars

-----------------------------------------------------------------------------
(* UnitDiscovery: extract_units.                                               *)

TxtShowAllUnits == <<"S", "h", "o", "w", " ", "A", "l", "l", " ", "U", "n", "i", "t", "s">>
TxtShowAllLower == <<"s", "h", "o", "w", " ", "a", "l", "l", " ", "u", "n", "i", "t", "s">>
TxtGrill == <<"G", "r", "i", "l", "l">>
TxtDiner == <<"D", "i", "n", "e", "r">>

RECURSIVE ExtractFrom(_, _, _)
ExtractFrom(anchors, acc, seen_ids) ==
    IF anchors = <<>> THEN acc
    ELSE LET anchor == Head(anchors)
             raw_id == anchor.unitoid
             parsed == ParseInt(raw_id)
             name == Strip(anchor.text)
             rest == Tail(anchors)
         IN  IF raw_id = <<>> \/ raw_id = <<"-", "1">>
             THEN ExtractFrom(rest, acc, seen_ids)
             ELSE IF ~parsed.ok
             THEN ExtractFrom(rest, acc, seen_ids)
             ELSE IF parsed.val \in seen_ids
             THEN ExtractFrom(rest, acc, seen_ids)
             ELSE IF name = <<>> \/ Lower(name) = TxtShowAllLower
             THEN ExtractFrom(rest, acc, seen_ids)
             ELSE ExtractFrom(rest,
                              Append(acc, [id |-> parsed.val, name |-> name]),
                              seen_ids \cup {parsed.val})

extract_units(anchors) == ExtractFrom(anchors, <<>>, {})

\* The homepage, as the sequence of its elements that carry data-unitoid, each
\* with the attribute's text and the element's text.
MaxAnchors == 3

UnitOids == {<<>>, <<"-", "1">>, <<"-", "0", "1">>, <<"x">>,
             <<"5">>, <<"0", "5">>, <<"7">>}
UnitTexts == {<<>>, TxtGrill, TxtDiner, TxtShowAllUnits}
Anchors == [unitoid : UnitOids, text : UnitTexts]

SeqsUpTo(S, n) == UNION {[1..k -> S] : k \in 0..n}

SpecUnitsInit ==
    /\ pc = "units_call"
    /\ markup \in SeqsUpTo(Anchors, MaxAnchors)
    /\ units = <<>>
    /\ outcomes = <<>> /\ retry = None
    /\ panel = "absent" /\ categories = <<>> /\ category_lookup = {}
    /\ nrows = 0 /\ nutrition_cache = {} /\ result = <<>> /\ exc = None
    /\ last = [op |-> "none"] /\ label_calls = <<>>
    /\ active_units = <<>> /\ skipped_units = <<>> /\ idx = 0
    /\ dataset_units = <<>> /\ total_items = 0

CallExtractUnits ==
    /\ pc = "units_call"
    /\ units' = extract_units(markup)
    /\ pc' = "units_done"
    /\ UNCHANGED <<markup, retryVars, panelVars, mainVars>>

SpecUnitsNext == CallExtractUnits

SpecUnits == SpecUnitsInit /\ [][SpecUnitsNext]_vars

-----------------------------------------------------------------------------
(* PanelParser: the markup of one row, and the functions that read it.         *)
(*                                                                             *)
(* A cell is [detailoid, anchor, text, desc, imgs, select]:                    *)
(*   detailoid  the data-detailoid of the first element in the cell carrying   *)
(*              that attribute, None when no element does;                     *)
(*   anchor     the cell's <a>, None when it has none: [id, hover, children],  *)
(*              hover = it has class cbo_nn_itemHover, children = its child    *)
(*              nodes, each [kind, text], kind "str" (a NavigableString),      *)
(*              "span" or "tag" (any other element);                           *)
(*   text       the cell's text outside the anchor and the description;        *)
(*   desc       the text of the description <div>/<small>, None when absent;   *)
(*   imgs       the cell's <img> elements, each [title, alt];                  *)
(*   select     the options of the cell's <select>, each [value, label],       *)
(*              None when it has no <select>.                                  *)
(* A row is [group, attr, onclick, text, cells]: group = it has class          *)
(* cbo_nn_itemGroupRow, attr = its data-categoryid (None when absent),         *)
(* onclick = the digits CATEGORY_ID_PATTERN captures in its onclick (None      *)
(* when the pattern does not match), text = its text, cells = its direct <td>. *)

RECURSIVE JoinSp(_)
\* " ".join(parts)
JoinSp(parts) ==
    IF parts = <<>> THEN <<>>
    ELSE IF Len(parts) = 1 THEN parts[1]
    ELSE parts[1] \o <<" ">> \o JoinSp(Tail(parts))

RECURSIVE StrippedParts(_)
\* the stripped, non-empty strings of a sequence of texts
StrippedParts(texts) ==
    IF texts = <<>> THEN <<>>
    ELSE LET t == Strip(Head(texts))
         IN  IF t = <<>> THEN StrippedParts(Tail(texts))
             ELSE <<t>> \o StrippedParts(Tail(texts))

\* get_text(" ", strip=True) of a sequence of text nodes
GetText(texts) == JoinSp(StrippedParts(texts))

ChildTexts(anchor) == [i \in 1..Len(anchor.children) |-> anchor.children[i].text]

AnchorText(anchor) == GetText(ChildTexts(anchor))

CellText(cell) ==
    GetText((IF cell.anchor = None THEN <<>> ELSE ChildTexts(Get(cell.anchor)))
            \o <<cell.text>>
            \o (IF cell.desc = None THEN <<>> ELSE <<Get(cell.desc)>>))

HasDigit(s) == \E i \in 1..Len(s) : s[i] \in Digits

RECURSIVE TakeDigits(_)
TakeDigits(s) ==
    IF s # <<>> /\ Head(s) \in Digits THEN <<Head(s)>> \o TakeDigits(Tail(s))
    ELSE <<>>

RECURSIVE FirstDigitRun(_)
\* DETAIL_ID_PATTERN.search(s).group(1), for s with a digit
FirstDigitRun(s) ==
    IF Head(s) \in Digits THEN TakeDigits(s) ELSE FirstDigitRun(Tail(s))

extract_detail_id(action_cell, name_cell) ==
    LET button == action_cell.detailoid
        parsed == ParseInt(Get(button))
        anchor == name_cell.anchor
    IN  IF button # None /\ Get(button) # <<>> /\ parsed.ok
        THEN Some(parsed.val)
        ELSE IF anchor # None /\ Get(anchor).id # None
                /\ HasDigit(Get(Get(anchor).id))
        THEN Some(ParseInt(FirstDigitRun(Get(Get(anchor).id))).val)
        ELSE None

RECURSIVE NameParts(_)
NameParts(children) ==
    IF children = <<>> THEN <<>>
    ELSE LET child == Head(children)
             text == Strip(child.text)
         IN  IF child.kind = "span" \/ text = <<>>
             THEN NameParts(Tail(children))
             ELSE <<text>> \o NameParts(Tail(children))

\* `x or None`
OrNone(text) == IF text = <<>> THEN None ELSE Some(text)

extract_item_name(cell) ==
    IF cell.anchor = None \/ ~Get(cell.anchor).hover
    THEN OrNone(CellText(cell))
    ELSE LET parts == NameParts(Get(cell.anchor).children)
         IN  IF parts # <<>> THEN Some(Strip(JoinSp(parts)))
             ELSE OrNone(AnchorText(Get(cell.anchor)))

extract_description(cell) ==
    IF cell.desc # None THEN OrNone(GetText(<<Get(cell.desc)>>)) ELSE None

RECURSIVE AllergenLabels(_, _)
AllergenLabels(imgs, labels) ==
    IF imgs = <<>> THEN labels
    ELSE LET img == Head(imgs)
             label == Strip(IF img.title # <<>> THEN img.title ELSE img.alt)
         IN  IF label # <<>> /\ \A i \in 1..Len(labels) : labels[i] # label
             THEN AllergenLabels(Tail(imgs), Append(labels, label))
             ELSE AllergenLabels(Tail(imgs), labels)

extract_allergens(cell) == AllergenLabels(cell.imgs, <<>>)

\* float(raw_value) / 100, kept as the pair of its numerator and denominator;
\* int() stands for float() on the option values the model uses.
ServingsOf(raw_value) ==
    IF raw_value = None \/ Get(raw_value) = <<>> THEN None
    ELSE LET parsed == ParseInt(Get(raw_value))
         IN  IF parsed.ok THEN Some([num |-> parsed.val, den |-> 100]) ELSE None

parse_serving_choices(cell) ==
    IF cell = None THEN None
    ELSE IF Get(cell).select = None
    THEN LET text == CellText(Get(cell))
         IN  IF text # <<>> THEN Some([type |-> "static", value |-> text])
             ELSE None
    ELSE LET select == Get(Get(cell).select)
             options == [i \in 1..Len(select) |->
                            [label |-> Strip(select[i].label),
                             raw_value |-> select[i].value,
                             servings |-> ServingsOf(select[i].value)]]
         IN  IF options # <<>> THEN Some([type |-> "select", options |-> options])
             ELSE None

-----------------------------------------------------------------------------
(* NutritionFetcher + Cache: fetch_nutrition.                                  *)

\* time.sleep(LABEL_DELAY_SECONDS), in tenths of a second
LABEL_DELAY_TENTHS == 1

\* The label markup the server answers with; parse_nutrition_label is kept
\* abstract: the label it builds is determined by the markup.
parse_nutrition_label(body) == [label_name |-> body]

Bodies == {"L1", "L2"}

InCache(detail_id, cache) == \E e \in cache : e.id = detail_id
CacheGet(detail_id, cache) == (CHOOSE e \in cache : e.id = detail_id).data
CachePut(detail_id, data, cache) ==
    {e \in cache : e.id # detail_id} \cup {[id |-> detail_id, data |-> data]}

\* fetch_nutrition that never stores what it fetched
Mut_fetch_nutrition_NoStore(detail_id, cache, script, body) ==
    IF \E e \in cache : e.id = detail_id
    THEN [data |-> Some((CHOOSE e \in cache : e.id = detail_id).data),
          exc |-> None, cache |-> cache, calls |-> <<>>, sleeps |-> <<>>]
    ELSE LET resp == request_with_retry(script)
         IN  IF resp.ok
             THEN [data |-> Some([label_name |-> body]), exc |-> None,
                   cache |-> cache,
                   calls |-> <<[id |-> detail_id, ok |-> TRUE]>>,
                   sleeps |-> resp.sleeps \o <<1>>]
             ELSE [data |-> None, exc |-> Some(resp.exc), cache |-> cache,
                   calls |-> <<[id |-> detail_id, ok |-> FALSE]>>,
                   sleeps |-> resp.sleeps]

\* fetch_nutrition that never looks into the cache
Mut_fetch_nutrition_NoLookup(detail_id, cache, script, body) ==
    LET resp == request_with_retry(script)
    IN  IF resp.ok
        THEN [data |-> Some([label_name |-> body]), exc |-> None,
              cache |-> {e \in cache : e.id # detail_id}
                        \cup {[id |-> detail_id, data |-> [label_name |-> body]]},
              calls |-> <<[id |-> detail_id, ok |-> TRUE]>>,
              sleeps |-> resp.sleeps \o <<1>>]
        ELSE [data |-> None, exc |-> Some(resp.exc), cache |-> cache,
              calls |-> <<[id |-> detail_id, ok |-> FALSE]>>,
              sleeps |-> resp.sleeps]

\* fetch_nutrition that stores an empty label when the request fails
Mut_fetch_nutrition_StoreOnFailure(detail_id, cache, script, body) ==
    IF \E e \in cache : e.id = detail_id
    THEN [data |-> Some((CHOOSE e \in cache : e.id = detail_id).data),
          exc |-> None, cache |-> cache, calls |-> <<>>, sleeps |-> <<>>]
    ELSE LET resp == request_with_retry(script)
         IN  IF resp.ok
             THEN [data |-> Some([label_name |-> body]), exc |-> None,
                   cache |-> cache
                             \cup {[id |-> detail_id, data |-> [label_name |-> body]]},
                   calls |-> <<[id |-> detail_id, ok |-> TRUE]>>,
                   sleeps |-> resp.sleeps \o <<1>>]
             ELSE [data |-> None, exc |-> Some(resp.exc),
                   cache |-> cache
                             \cup {[id |-> detail_id, data |-> [label_name |-> "none"]]},
                   calls |-> <<[id |-> detail_id, ok |-> FALSE]>>,
                   sleeps |-> resp.sleeps]

\* fetch_nutrition(detail_id, session, nutrition_cache), the server answering
\* the request's attempts by `script` and a 2xx attempt with `body`.
\* Returns what was returned or raised, the cache afterwards, the
\* request_with_retry calls made and the sleeps taken, in order.
fetch_nutrition(detail_id, cache, script, body) ==
    IF InCache(detail_id, cache)
    THEN [data |-> Some(CacheGet(detail_id, cache)), exc |-> None,
          cache |-> cache, calls |-> <<>>, sleeps |-> <<>>]
    ELSE LET resp == request_with_retry(script)
             data == parse_nutrition_label(body)
         IN  IF resp.ok
             THEN [data |-> Some(data), exc |-> None,
                   cache |-> CachePut(detail_id, data, cache),
                   calls |-> <<[id |-> detail_id, ok |-> TRUE]>>,
                   sleeps |-> resp.sleeps \o <<LABEL_DELAY_TENTHS>>]
             ELSE [data |-> None, exc |-> Some(resp.exc),
                   cache |-> cache,
                   calls |-> <<[id |-> detail_id, ok |-> FALSE]>>,
                   sleeps |-> resp.sleeps]

-----------------------------------------------------------------------------
(* PanelParser: build_category, build_item, parse_unit_panel.                  *)

HasChar(s, c) == \E i \in 1..Len(s) : s[i] = c

\* text.rfind(c), 1-based, for text that has c
RFind(s, c) == CHOOSE i \in 1..Len(s) :
                   s[i] = c /\ \A j \in (i + 1)..Len(s) : s[j] # c

build_category(row) ==
    LET text == row.text
        category_id == IF row.onclick # None
                       THEN Some(ParseInt(Get(row.onclick)).val)
                       ELSE None
        split == HasChar(text, "(") /\ text[Len(text)] = ")"
        at == RFind(text, "(")
    IN  [category_id |-> category_id,
         title |-> IF split THEN Strip(SubSeq(text, 1, at - 1)) ELSE text,
         selection_guidance |->
             IF split THEN Some(Strip(SubSeq(text, at + 1, Len(text) - 1)))
             ELSE None,
         raw_title |-> text,
         items |-> <<>>]

NoFields == [k \in {} |-> <<>>]

\* one entry of the item dict, left out when its value is None, [] or ""
Field(key, value) ==
    IF value = None THEN NoFields ELSE (key :> Get(value))

TextField(key, value) ==
    IF value = None \/ Get(value) = <<>> THEN NoFields ELSE (key :> Get(value))

\* build_item's early returns with the name check left out
Mut_YieldsNoItem_CellsOnly(row) == Len(row.cells) < 2

\* build_item, lines 188-189 and 194-196: the rows that yield None
YieldsNoItem(row) ==
    \/ Len(row.cells) < 2
    \/ LET item_name == extract_item_name(row.cells[2])
       IN  item_name = None \/ Get(item_name) = <<>>

\* build_item(row, session, nutrition_cache): the Item or None, or the exception
\* fetch_nutrition raised; with the cache afterwards, the transport calls made
\* and the sleeps taken.
build_item(row, cache, script, body) ==
    LET cells == row.cells
        none == [item |-> None, exc |-> None, cache |-> cache,
                 calls |-> <<>>, sleeps |-> <<>>, fetched |-> FALSE]
    IN  IF YieldsNoItem(row) THEN none
        ELSE
        LET action_cell == cells[1]
            name_cell == cells[2]
            serving_cell == IF Len(cells) > 2 THEN Some(cells[3]) ELSE None
            servings_cell == IF Len(cells) > 3 THEN Some(cells[4]) ELSE None
            detail_id == extract_detail_id(action_cell, name_cell)
            item_name == extract_item_name(name_cell)
            item == Field("detail_id", detail_id)
                    @@ TextField("name", item_name)
                    @@ TextField("description", extract_description(name_cell))
                    @@ TextField("allergens", Some(extract_allergens(name_cell)))
                    @@ TextField("serving_display",
                                 IF serving_cell # None
                                 THEN Some(CellText(Get(serving_cell)))
                                 ELSE None)
                    @@ Field("serving_choices",
                             parse_serving_choices(servings_cell))
        IN  IF detail_id # None /\ Get(detail_id) # 0
            THEN LET got == fetch_nutrition(Get(detail_id), cache, script, body)
                 IN  [item |-> IF got.exc = None
                               THEN Some(item @@ Field("nutrition", got.data))
                               ELSE None,
                      exc |-> got.exc, cache |-> got.cache,
                      calls |-> got.calls, sleeps |-> got.sleeps,
                      fetched |-> TRUE]
            ELSE [none EXCEPT !.item = Some(item)]

InLookup(key, lookup) == \E e \in lookup : e.key = key
LookupGet(key, lookup) == (CHOOSE e \in lookup : e.key = key).at
LookupPut(key, at, lookup) ==
    {e \in lookup : e.key # key} \cup {[key |-> key, at |-> at]}

\* the lookup forgotten: every item row goes to the most recent category
Mut_TargetOf_MostRecent(attr, lookup, cats) ==
    IF cats # <<>> THEN Len(cats) ELSE 0

\* The category an item row attaches to, as its place in `categories`:
\* category_lookup.get(row["data-categoryid"]) or (categories[-1] if categories
\* else None); 0 stands for None.  category_lookup holds references into
\* `categories`, which is only ever appended to, so a reference is a place.
TargetOf(attr, lookup, cats) ==
    IF InLookup(attr, lookup) THEN LookupGet(attr, lookup)
    ELSE IF cats # <<>> THEN Len(cats)
    ELSE 0

IsCategoryRow(row) == row.group
IsItemRow(row) == ~row.group /\ row.attr # None

\* parse_unit_panel, lines 141-145: a row with class cbo_nn_itemGroupRow
CategoryRow(row) ==
    /\ pc = "parse" /\ panel = "html"
    /\ IsCategoryRow(row)
    /\ LET category == build_category(row)
       IN  /\ categories' = Append(categories, category)
           /\ category_lookup' =
                IF category.category_id # None
                THEN LookupPut(IntToStr(Get(category.category_id)),
                               Len(categories) + 1, category_lookup)
                ELSE category_lookup
           /\ last' = [op |-> "category", category_id |-> category.category_id]
    /\ nrows' = nrows + 1
    /\ UNCHANGED <<pc, panel, nutrition_cache, result, exc, label_calls>>
    /\ UNCHANGED <<retryVars, unitVars, mainVars>>

\* What the parser reads off an item row: its data-categoryid, the number of
\* its direct cells, and the name and detail id its cells resolve to.
RowFacts(row) ==
    [op |-> "item", attr |-> Get(row.attr), ncells |-> Len(row.cells),
     name |-> IF Len(row.cells) < 2 THEN None
              ELSE extract_item_name(row.cells[2]),
     detail_id |-> IF Len(row.cells) < 2 THEN None
                   ELSE extract_detail_id(row.cells[1], row.cells[2])]

\* parse_unit_panel, lines 146-154: a row with data-categoryid.  The server
\* answers a label request's attempts by `script`, a 2xx attempt with `body`.
ItemRow(row) ==
    /\ pc = "parse" /\ panel = "html"
    /\ IsItemRow(row)
    /\ \E at \in {TargetOf(Get(row.attr), category_lookup, categories)},
          seen \in {RowFacts(row)} :
         IF at = 0
         THEN /\ last' = seen @@ [at |-> 0, fetched |-> FALSE,
                                  slept |-> FALSE, raised |-> FALSE]
              /\ UNCHANGED <<pc, categories, nutrition_cache, exc, label_calls>>
         ELSE \E script \in ServerScripts, body \in Bodies :
              \E built \in {build_item(row, nutrition_cache, script, body)} :
                /\ last' = seen @@ [at |-> at, fetched |-> built.fetched,
                                    slept |-> built.sleeps # <<>>,
                                    raised |-> built.exc # None]
                /\ nutrition_cache' = built.cache
                /\ label_calls' = label_calls \o built.calls
                /\ IF built.exc # None
                   THEN /\ pc' = "raised"
                        /\ exc' = built.exc
                        /\ UNCHANGED categories
                   ELSE /\ categories' =
                            IF built.item # None
                            THEN [categories EXCEPT ![at].items =
                                      Append(@, Get(built.item))]
                            ELSE categories
                        /\ UNCHANGED <<pc, exc>>
    /\ nrows' = nrows + 1
    /\ UNCHANGED <<panel, category_lookup, result>>
    /\ UNCHANGED <<retryVars, unitVars, mainVars>>

\* parse_unit_panel: a row that is neither (a header row, say) is passed over
PlainRow(row) ==
    /\ pc = "parse" /\ panel = "html"
    /\ ~IsCategoryRow(row) /\ ~IsItemRow(row)
    /\ nrows' = nrows + 1
    /\ last' = [op |-> "plain"]
    /\ UNCHANGED <<pc, panel, categories, category_lookup, nutrition_cache,
                   result, exc, label_calls>>
    /\ UNCHANGED <<retryVars, unitVars, mainVars>>

\* the filter forgotten: every category is returned
Mut_WithItems_KeepAll(cats) == cats

RECURSIVE WithItems(_)
\* [cat for cat in categories if cat["items"]]
WithItems(cats) ==
    IF cats = <<>> THEN <<>>
    ELSE IF Head(cats).items # <<>> THEN <<Head(cats)>> \o WithItems(Tail(cats))
    ELSE WithItems(Tail(cats))

\* parse_unit_panel, line 155: the rows are exhausted (at once, for a fragment
\* with no table that holds "Item Name")
ReturnPanel ==
    /\ pc = "parse"
    /\ result' = WithItems(categories)
    /\ pc' = "parsed"
    /\ last' = [op |-> "return"]
    /\ UNCHANGED <<panel, categories, category_lookup, nrows, nutrition_cache,
                   exc, label_calls>>
    /\ UNCHANGED <<retryVars, unitVars, mainVars>>

-----------------------------------------------------------------------------
(* The rows a panel is drawn from.                                             *)

TxtTea == <<"T", "e", "a">>
TxtSoupPadded == <<" ", "S", "o", "u", "p", " ">>
TxtIcon == <<"V">>
TxtHot == <<"h", "o", "t">>
TxtVegan == <<"V", "e", "g", "a", "n">>
TxtCup == <<"c", "u", "p">>
TxtSoups == <<"S", "o", "u", "p", "s">>
TxtSoupsPick == <<"S", "o", "u", "p", "s", " ", "(", "P", "i", "c", "k", " ", "1", ")">>

EmptyCell == [detailoid |-> None, anchor |-> None, text |-> <<>>,
              desc |-> None, imgs |-> <<>>, select |-> None]

\* the action cell: its button's data-detailoid is absent, empty, not a
\* number, or the text of 0, 1 or 2
ActionCells == {[EmptyCell EXCEPT !.detailoid = d] :
                   d \in {None, Some(<<>>), Some(<<"x">>), Some(<<"0">>),
                          Some(<<"1">>), Some(<<"2">>)}}

NamePlain == [EmptyCell EXCEPT !.text = TxtTea]
NameHover ==
    [EmptyCell EXCEPT
        !.anchor = Some([id |-> None, hover |-> TRUE,
                         children |-> <<[kind |-> "str", text |-> TxtSoupPadded],
                                        [kind |-> "span", text |-> TxtIcon]>>]),
        !.desc = Some(TxtHot),
        !.imgs = <<[title |-> TxtVegan, alt |-> <<>>],
                   [title |-> <<>>, alt |-> TxtVegan]>>]
NameIconOnly ==
    [EmptyCell EXCEPT
        !.anchor = Some([id |-> None, hover |-> TRUE,
                         children |-> <<[kind |-> "span", text |-> TxtIcon]>>])]
NameHoverEmpty ==
    [EmptyCell EXCEPT
        !.anchor = Some([id |-> None, hover |-> TRUE, children |-> <<>>]),
        !.text = TxtTea]
NameLinked ==
    [EmptyCell EXCEPT
        !.anchor = Some([id |-> Some(<<"n", "m", "2">>), hover |-> FALSE,
                         children |-> <<[kind |-> "str", text |-> TxtTea]>>])]
NameCells == {EmptyCell, NamePlain, NameHover, NameIconOnly, NameHoverEmpty,
              NameLinked}

ServingCell == [EmptyCell EXCEPT !.text = TxtCup]
ServingsCells ==
    {[EmptyCell EXCEPT !.text = <<"2">>],
     [EmptyCell EXCEPT
         !.select = Some(<<[value |-> Some(<<"5", "0">>), label |-> TxtCup],
                           [value |-> None, label |-> TxtCup]>>)]}

ButtonOne == [EmptyCell EXCEPT !.detailoid = Some(<<"1">>)]

CellSeqs ==
    {<<>>, <<ButtonOne>>}
    \cup {<<a, NamePlain>> : a \in ActionCells}
    \cup {<<a, n>> : a \in {EmptyCell, ButtonOne}, n \in NameCells}
    \cup {<<ButtonOne, NamePlain, ServingCell>>}
    \cup {<<ButtonOne, NamePlain, ServingCell, v>> : v \in ServingsCells}

\* data-categoryid as the server writes it, and with a leading zero
CategoryAttrs == {<<"1">>, <<"2">>, <<"0", "1">>}

ItemRowsOf(attrs, cellseqs) ==
    [group : {FALSE}, attr : {Some(a) : a \in attrs},
     onclick : {None}, text : {<<>>}, cells : cellseqs]

\* every shape of item row, naming category 1
ItemRows == ItemRowsOf({<<"1">>}, CellSeqs)

\* the item rows the multi-row specifications draw from: no detail id, detail
\* id 1, an empty name, a single cell
PlainItemRows ==
    ItemRowsOf(CategoryAttrs,
               {<<EmptyCell, NamePlain>>, <<ButtonOne, NamePlain>>,
                <<ButtonOne, EmptyCell>>, <<ButtonOne>>})

GroupRows ==
    [group : {TRUE}, attr : {None},
     onclick : {Some(<<"1">>), Some(<<"2">>), Some(<<"0", "1">>)},
     text : {TxtSoups}, cells : {<<>>}]
    \cup [group : {TRUE}, attr : {None, Some(<<"1">>)}, onclick : {None},
          text : {TxtSoupsPick}, cells : {<<>>}]

PlainRows == [group : {FALSE}, attr : {None}, onclick : {None},
              text : {<<>>}, cells : {<<>>}]

-----------------------------------------------------------------------------
(* One call of parse_unit_panel, its rows drawn one at a time.                 *)

MaxRows == 4
MaxItemRows == 3

SpecPanelInit ==
    /\ pc = "parse"
    /\ panel \in {"html", "empty"}
    /\ nutrition_cache = {}
    /\ categories = <<>> /\ category_lookup = {}
    /\ nrows = 0 /\ result = <<>> /\ exc = None
    /\ last = [op |-> "none"] /\ label_calls = <<>>
    /\ outcomes = <<>> /\ retry = None
    /\ markup = <<>> /\ units = <<>>
    /\ active_units = <<>> /\ skipped_units = <<>> /\ idx = 0
    /\ dataset_units = <<>> /\ total_items = 0

\* panels of up to MaxRows rows with plain items
SpecPanelNext ==
    \/ \E row \in GroupRows : nrows < MaxRows /\ CategoryRow(row)
    \/ \E row \in PlainItemRows : nrows < MaxRows /\ ItemRow(row)
    \/ \E row \in PlainRows : nrows < MaxRows /\ PlainRow(row)
    \/ ReturnPanel

SpecPanel == SpecPanelInit /\ [][SpecPanelNext]_vars

\* panels of up to MaxItemRows rows with every shape of item row, parsed with
\* the cache empty or holding the label of detail id 1 from an earlier venue
SpecItemInit ==
    /\ pc = "parse"
    /\ panel = "html"
    /\ nutrition_cache \in
         {{}, {[id |-> 1, data |-> parse_nutrition_label("L1")]}}
    /\ categories = <<>> /\ category_lookup = {}
    /\ nrows = 0 /\ result = <<>> /\ exc = None
    /\ last = [op |-> "none"] /\ label_calls = <<>>
    /\ outcomes = <<>> /\ retry = None
    /\ markup = <<>> /\ units = <<>>
    /\ active_units = <<>> /\ skipped_units = <<>> /\ idx = 0
    /\ dataset_units = <<>> /\ total_items = 0

SpecItemNext ==
    \/ \E row \in GroupRows : nrows < MaxItemRows /\ CategoryRow(row)
    \/ \E row \in ItemRows : nrows < MaxItemRows /\ ItemRow(row)
    \/ \E row \in PlainRows : nrows < MaxItemRows /\ PlainRow(row)
    \/ ReturnPanel

SpecItem == SpecItemInit /\ [][SpecItemNext]_vars

-----------------------------------------------------------------------------
(* Normalizers: normalize_name, and the denylist.                              *)

\* unicodedata.normalize("NFKD", c) on the characters the model uses:
\* "e_acute" stands for U+00E9 and decomposes into e and a combining accent
NFKD(c) == IF c = "e_acute" THEN <<"e", "combining_acute">> ELSE <<c>>

\* .encode("ascii", "ignore").decode("ascii")
IsAscii(c) == c \notin {"e_acute", "combining_acute"}

LowerAlnum == {"a", "b", "c", "d", "e", "f", "g", "h", "i", "j", "k", "l", "m",
               "n", "o", "p", "q", "r", "s", "t", "u", "v", "w", "x", "y", "z"}
              \cup Digits

RECURSIVE Decompose(_)
Decompose(s) == IF s = <<>> THEN <<>> ELSE NFKD(Head(s)) \o Decompose(Tail(s))

RECURSIVE AsciiOnly(_)
AsciiOnly(s) ==
    IF s = <<>> THEN <<>>
    ELSE IF IsAscii(Head(s)) THEN <<Head(s)>> \o AsciiOnly(Tail(s))
    ELSE AsciiOnly(Tail(s))

RECURSIVE CollapseNonAlnum(_, _)
\* re.sub(r"[^a-z0-9]+", " ", s); inRun = the previous character was replaced
CollapseNonAlnum(s, inRun) ==
    IF s = <<>> THEN <<>>
    ELSE IF Head(s) \in LowerAlnum
    THEN <<Head(s)>> \o CollapseNonAlnum(Tail(s), FALSE)
    ELSE IF inRun THEN CollapseNonAlnum(Tail(s), TRUE)
    ELSE <<" ">> \o CollapseNonAlnum(Tail(s), TRUE)

normalize_name(value) ==
    Strip(CollapseNonAlnum(Lower(AsciiOnly(Decompose(value))), FALSE))

EXCLUDED_UNIT_NAMES ==
    {<<"C", "a", "f", "e">>,
     <<"D", "u", "k", "e", " ", "M", "a", "r", "i", "n", "e", " ", "L", "a", "b">>,
     <<"F", "r", "e", "e", "m", "a", "n", " ", "C", "a", "f", "e">>,
     <<"N", "a", "s", "h", "e", "r", " ", "M", "u", "s", "e", "u", "m", " ", "C", "a", "f", "e">>,
     <<"T", "r", "i", "n", "i", "t", "y", " ", "C", "a", "f", "e">>,
     <<"M", "a", "r", "k", "e", "t", "p", "l", "a", "c", "e">>}

EXCLUDED_UNIT_TOKENS == {normalize_name(name) : name \in EXCLUDED_UNIT_NAMES}

-----------------------------------------------------------------------------
(* main: discovery, then one venue at a time.                                  *)

\* str(exc) for the exceptions the model raises
str_exc(kind) ==
    CASE kind = "ConnectionError" -> "Connection aborted."
      [] kind = "HTTPError" -> "503 Server Error"
      [] kind = "JSONDecodeError" -> "Expecting value: line 1 column 1 (char 0)"
      [] OTHER -> "unexpected error"

RECURSIVE FilterUnits(_, _, _)
\* main, lines 436-444
FilterUnits(discovered, active, skipped) ==
    IF discovered = <<>> THEN [active |-> active, skipped |-> skipped]
    ELSE LET unit == Head(discovered)
         IN  IF normalize_name(unit.name) \in EXCLUDED_UNIT_TOKENS
             THEN FilterUnits(Tail(discovered), active,
                              Append(skipped, unit.name))
             ELSE IF \E i \in 1..Len(active) : active[i] = unit
             THEN FilterUnits(Tail(discovered), active, skipped)
             ELSE FilterUnits(Tail(discovered), Append(active, unit), skipped)

\* main, lines 432-451: the homepage is fetched and its venues filtered; an
\* exception of the homepage request leaves main
Discover(script, homepage) ==
    /\ pc = "start"
    /\ \E resp \in {request_with_retry(script)} :
         IF ~resp.ok
         THEN /\ pc' = "aborted"
              /\ exc' = Some(resp.exc)
              /\ UNCHANGED <<active_units, skipped_units, idx>>
         ELSE \E kept \in {FilterUnits(extract_units(homepage), <<>>, <<>>)} :
              /\ active_units' = kept.active
              /\ skipped_units' = kept.skipped
              /\ idx' = 1
              /\ pc' = "loop"
              /\ UNCHANGED exc
    /\ last' = [op |-> "discover"]
    /\ UNCHANGED <<panel, categories, category_lookup, nrows, nutrition_cache,
                   result, label_calls, dataset_units, total_items>>
    /\ UNCHANGED <<retryVars, unitVars>>

\* what the panel endpoint's 2xx answer holds: no JSON, JSON without an
\* itemPanel, or JSON with one
Payloads == {"bad_json", "no_item_panel", "item_panel"}

\* main, line 455: fetch_unit_panel(session, unit["id"])
FetchUnitPanel(script, payload) ==
    /\ pc = "loop"
    /\ idx <= Len(active_units)
    /\ \E resp \in {request_with_retry(script)} :
         IF ~resp.ok \/ payload = "bad_json"
         THEN /\ pc' = "raised"
              /\ exc' = Some(IF ~resp.ok THEN resp.exc ELSE "JSONDecodeError")
              /\ UNCHANGED panel
         ELSE /\ pc' = "parse"
              /\ panel' = IF payload = "item_panel" THEN "html" ELSE "empty"
              /\ UNCHANGED exc
    /\ categories' = <<>>
    /\ category_lookup' = {}
    /\ nrows' = 0
    /\ result' = <<>>
    /\ last' = [op |-> "fetch_panel"]
    /\ UNCHANGED <<nutrition_cache, label_calls>>
    /\ UNCHANGED <<retryVars, unitVars, mainVars>>

\* no except clause: the exception leaves main
Mut_HandleVenueError_Abort ==
    /\ pc = "raised"
    /\ pc' = "aborted"
    /\ last' = [op |-> "except"]
    /\ UNCHANGED <<panel, categories, category_lookup, nrows, nutrition_cache,
                   result, exc, label_calls>>
    /\ UNCHANGED <<retryVars, unitVars, mainVars>>

\* main, lines 457-467: the except clause at the venue's boundary
HandleVenueError ==
    /\ pc = "raised"
    /\ idx \in 1..Len(active_units)
    /\ dataset_units' =
         Append(dataset_units,
                [unit_id |-> active_units[idx].id,
                 name |-> active_units[idx].name,
                 error |-> str_exc(Get(exc)),
                 categories |-> <<>>])
    /\ idx' = idx + 1
    /\ pc' = "loop"
    /\ exc' = None
    /\ last' = [op |-> "except"]
    /\ UNCHANGED <<panel, categories, category_lookup, nrows, nutrition_cache,
                   result, label_calls>>
    /\ UNCHANGED <<active_units, skipped_units, total_items>>
    /\ UNCHANGED <<retryVars, unitVars>>

RECURSIVE CountItems(_)
\* sum(len(cat["items"]) for cat in categories)
CountItems(cats) ==
    IF cats = <<>> THEN 0 ELSE Len(Head(cats).items) + CountItems(Tail(cats))

\* main, lines 468-479: the venue's record
RecordUnit ==
    /\ pc = "parsed"
    /\ idx \in 1..Len(active_units)
    /\ total_items' = total_items + CountItems(result)
    /\ dataset_units' =
         Append(dataset_units,
                [unit_id |-> active_units[idx].id,
                 name |-> active_units[idx].name,
                 category_count |-> Len(result),
                 item_count |-> CountItems(result),
                 categories |-> result])
    /\ idx' = idx + 1
    /\ pc' = "loop"
    /\ last' = [op |-> "record"]
    /\ UNCHANGED <<panel, categories, category_lookup, nrows, nutrition_cache,
                   result, exc, label_calls>>
    /\ UNCHANGED <<active_units, skipped_units>>
    /\ UNCHANGED <<retryVars, unitVars>>

\* main, lines 480-496: every venue is done, the dataset is written
WriteDataset ==
    /\ pc = "loop"
    /\ idx > Len(active_units)
    /\ pc' = "done"
    /\ last' = [op |-> "write"]
    /\ UNCHANGED <<panel, categories, category_lookup, nrows, nutrition_cache,
                   result, exc, label_calls>>
    /\ UNCHANGED <<retryVars, unitVars, mainVars>>

TxtCafeAccent == <<"C", "a", "f", "e_acute">>

MaxUnits == 2
MaxMainRows == 3

\* the homepages main is run on: up to MaxUnits elements, ids 5 and 7, named
\* Grill or (denylisted once normalized) Cafe with an accent
MainAnchors == [unitoid : {<<"5">>, <<"7">>}, text : {TxtGrill, TxtCafeAccent}]

\* the rows main's panels are drawn from: one category row, and item rows with
\* no detail id, detail id 1 and (through the name anchor) detail id 2
MainGroupRows ==
    [group : {TRUE}, attr : {None}, onclick : {Some(<<"1">>)},
     text : {TxtSoups}, cells : {<<>>}]
MainItemRows ==
    [group : {FALSE}, attr : {Some(<<"1">>)}, onclick : {None}, text : {<<>>},
     cells : {<<EmptyCell, NamePlain>>, <<ButtonOne, NamePlain>>,
              <<EmptyCell, NameLinked>>}]

Init ==
    /\ pc = "start"
    /\ panel = "absent"
    /\ nutrition_cache = {}
    /\ categories = <<>> /\ category_lookup = {}
    /\ nrows = 0 /\ result = <<>> /\ exc = None
    /\ last = [op |-> "none"] /\ label_calls = <<>>
    /\ outcomes = <<>> /\ retry = None
    /\ markup = <<>> /\ units = <<>>
    /\ active_units = <<>> /\ skipped_units = <<>> /\ idx = 0
    /\ dataset_units = <<>> /\ total_items = 0

Next ==
    \/ \E script \in ServerScripts, homepage \in SeqsUpTo(MainAnchors, MaxUnits) :
          Discover(script, homepage)
    \/ \E script \in ServerScripts, payload \in Payloads :
          FetchUnitPanel(script, payload)
    \/ \E row \in MainGroupRows : nrows < MaxMainRows /\ CategoryRow(row)
    \/ \E row \in MainItemRows : nrows < MaxMainRows /\ ItemRow(row)
    \/ \E row \in PlainRows : nrows < MaxMainRows /\ PlainRow(row)
    \/ ReturnPanel
    \/ HandleVenueError
    \/ RecordUnit
    \/ WriteDataset

Spec == Init /\ [][Next]_vars

-----------------------------------------------------------------------------
(* Properties.                                                                 *)

\* the place of i among the members of S, counted from 1
Rank(S, i) == Cardinality({j \in S : j <= i})

Max(S) == CHOOSE i \in S : \A j \in S : j <= i

\* C1, as claimed (Spec): at most one request_with_retry call against the label
\* endpoint is made per distinct detail id in a run.
C1_Claim ==
    \A i, j \in 1..Len(label_calls) :
        i # j => label_calls[i].id # label_calls[j].id

\* C1, amended (Spec): no label request is made for a detail id once a request
\* for that id has succeeded; so at most one request per id succeeds, and every
\* other request for the id failed before it.
C1_OneFetchPerStoredId ==
    \A i, j \in 1..Len(label_calls) :
        (i < j /\ label_calls[i].id = label_calls[j].id) => ~label_calls[i].ok

\* the second venue's item was served from the cache the first venue filled
C1_Witness ==
    /\ idx = 2
    /\ last.op = "item" /\ last.fetched /\ ~last.raised /\ ~last.slept
    /\ Len(label_calls) = 1
    /\ label_calls[1] = [id |-> Get(last.detail_id), ok |-> TRUE]
    /\ Len(dataset_units) = 1
    /\ dataset_units[1].categories # <<>>

\* C2 (Spec): a fetch_nutrition call for an id that is a key of the cache makes
\* no request, takes no courtesy delay, leaves the cache as it is and returns
\* the structure the cache holds; and every id in the cache was requested
\* successfully exactly once.
C2_CacheHit ==
    [][ /\ (last'.op = "item" /\ last'.fetched
              /\ InCache(Get(last'.detail_id), nutrition_cache))
            => /\ label_calls' = label_calls
               /\ ~last'.slept
               /\ ~last'.raised
               /\ nutrition_cache' = nutrition_cache
               /\ LET items == categories'[last'.at].items
                  IN  items[Len(items)].nutrition
                        = CacheGet(Get(last'.detail_id), nutrition_cache)
        /\ \A e \in nutrition_cache' :
              Cardinality({i \in 1..Len(label_calls') :
                              label_calls'[i].id = e.id /\ label_calls'[i].ok}) = 1
      ]_vars

\* an item got its nutrition from the cache: fetched, with no sleep at all
C2_Witness ==
    /\ last.op = "item" /\ last.fetched /\ ~last.raised /\ ~last.slept
    /\ InCache(Get(last.detail_id), nutrition_cache)
    /\ Len(label_calls) = 1

\* C3 (SpecRetry): request_with_retry makes at most 3 attempts; it returns the
\* response of the first attempt that succeeds and attempts nothing after it;
\* a wait of 1.5 * k seconds (15 * k tenths) follows failed attempt k and
\* precedes attempt k + 1, and no wait follows the last attempt made; when all
\* 3 attempts fail with a network error or a non-2xx status, the third
\* attempt's error is raised and nothing is returned.
C3_RetryBudget ==
    retry # None =>
        LET r == Get(retry)
            wins == {k \in 1..3 : /\ outcomes[k] = "ok"
                                  /\ \A j \in 1..(k - 1) :
                                        outcomes[j] \in RequestException}
        IN  /\ r.attempts \in 1..3
            /\ r.ok <=> wins # {}
            /\ r.ok => /\ r.attempts \in wins
                       /\ r.exc = ""
            /\ Len(r.sleeps) = r.attempts - 1
            /\ \A k \in 1..Len(r.sleeps) : r.sleeps[k] = 15 * k
            /\ (\A k \in 1..3 : outcomes[k] \in RequestException)
                  => /\ ~r.ok
                     /\ r.attempts = 3
                     /\ r.exc = outcomes[3]
                     /\ r.sleeps = <<15, 30>>

\* all three attempts failed and the error was raised
C3_Witness ==
    /\ retry # None
    /\ \A k \in 1..3 : outcomes[k] \in RequestException
    /\ ~Get(retry).ok
    /\ Get(retry).attempts = 3

IsErrorRecord(rec, unit) ==
    /\ DOMAIN rec = {"unit_id", "name", "error", "categories"}
    /\ rec.unit_id = unit.id /\ rec.name = unit.name
    /\ rec.error # ""
    /\ rec.categories = <<>>

IsFullRecord(rec, unit, cats) ==
    /\ DOMAIN rec = {"unit_id", "name", "category_count", "item_count",
                     "categories"}
    /\ rec.unit_id = unit.id /\ rec.name = unit.name
    /\ rec.categories = cats
    /\ rec.category_count = Len(cats)
    /\ rec.item_count = Cardinality(
           {p \in (1..Len(cats)) \X (1..nrows) : p[2] <= Len(cats[p[1]].items)})

C5_NoEmptyCategory ==
    pc = "parsed" =>
        LET kept == {i \in 1..Len(categories) : categories[i].items # <<>>}
        IN  /\ \A k \in 1..Len(result) : Len(result[k].items) >= 1
            /\ Len(result) = Cardinality(kept)
            /\ \A i \in kept : result[Rank(kept, i)] = categories[i]

\* a panel was returned from which a category without items was left out
C5_Witness ==
    /\ pc = "parsed"
    /\ Len(result) >= 1
    /\ \E i \in 1..Len(categories) :
          /\ categories[i].items = <<>>
          /\ \E j \in (i + 1)..Len(categories) : categories[j].items # <<>>

\* C6 (SpecItem): no Item has an empty name, and an item row with fewer than 2
\* direct cells, or whose resolved name is empty, appends nothing to any
\* category (and asks for no label).
C6_NoEmptyName ==
    [][ /\ \A i \in 1..Len(categories') :
             \A k \in 1..Len(categories'[i].items) :
                LET item == categories'[i].items[k]
                IN  "name" \in DOMAIN item /\ item.name # <<>>
        /\ (last'.op = "item" /\ (last'.ncells < 2 \/ last'.name = None))
              => /\ categories' = categories
                 /\ label_calls' = label_calls
                 /\ ~last'.fetched ]_vars

\* a row with a detail id and an empty name met an existing category
C6_Witness ==
    /\ last.op = "item"
    /\ last.at # 0
    /\ last.ncells >= 2
    /\ last.name = None
    /\ last.detail_id # None

\* C7 (SpecUnits): extract_units returns one Unit per distinct integer id, in
\* the order of first occurrence, each taken from the first element carrying
\* the id; elements whose attribute is unparsable or the sentinel -1, and the
\* "show all units" entry, yield nothing; no Unit has id -1 and no two share an
\* id.  (Elements without text are read as yielding nothing too.)
C7_Claim ==
    pc = "units_done" =>
        LET Id(i) == ParseInt(markup[i].unitoid)
            Name(i) == Strip(markup[i].text)
            Yields(i) == /\ Id(i).ok
                         /\ Id(i).val # -1
                         /\ Name(i) # <<>>
                         /\ Lower(Name(i)) # TxtShowAllLower
            firsts == {i \in 1..Len(markup) :
                          /\ Yields(i)
                          /\ \A j \in 1..(i - 1) :
                                Yields(j) => Id(j).val # Id(i).val}
        IN  /\ Len(units) = Cardinality(firsts)
            /\ \A i \in firsts :
                  units[Rank(firsts, i)] = [id |-> Id(i).val, name |-> Name(i)]
            /\ \A k \in 1..Len(units) : units[k].id # -1
            /\ \A k, l \in 1..Len(units) : k # l => units[k].id # units[l].id

\* C8 (SpecItem): for every Item build_item produces, fetch_nutrition is
\* invoked, and its result attached as the item's nutrition, if and only if the
\* item's detail id is not null, 0 included.
C8_Claim ==
    (last.op = "item" /\ last.at # 0 /\ last.ncells >= 2 /\ last.name # None)
        => /\ last.fetched <=> last.detail_id # None
           /\ ~last.raised =>
                LET items == categories[last.at].items
                    item == items[Len(items)]
                IN  "nutrition" \in DOMAIN item <=> last.detail_id # None

\* the decimal text of a category's id is the row's data-categoryid
Matches(category, attr) ==
    category.category_id # None /\ IntToStr(Get(category.category_id)) = attr

\* C9 (SpecPanel): an item row attaches to the Category whose category_id
\* matches its data-categoryid (the latest one, when several do); when none
\* has been seen it attaches to the most recently appended Category; when no
\* Category exists the row is dropped: no Item is built, no label is asked for.
C9_Attachment ==
    [][ last'.op = "item" =>
          LET matching == {i \in 1..Len(categories) :
                              Matches(categories[i], last'.attr)}
              at == IF matching # {} THEN Max(matching)
                    ELSE IF categories # <<>> THEN Len(categories)
                    ELSE 0
              builds == last'.ncells >= 2 /\ last'.name # None /\ ~last'.raised
          IN  /\ Len(categories') = Len(categories)
              /\ \A i \in 1..Len(categories) :
                    i # at => categories'[i] = categories[i]
              /\ at = 0 => /\ categories' = categories
                           /\ label_calls' = label_calls
                           /\ ~last'.fetched
              /\ (at # 0 /\ builds) =>
                    /\ Len(categories'[at].items) = Len(categories[at].items) + 1
                    /\ categories'[at].items[Len(categories'[at].items)].name
                          = Get(last'.name)
              /\ (at # 0 /\ ~builds) => categories' = categories ]_vars

\* an item went to a category that is not the most recent one
C9_Witness ==
    /\ last.op = "item"
    /\ last.at # 0
    /\ last.at < Len(categories)
    /\ last.name # None
    /\ ~last.raised
    /\ Matches(categories[last.at], last.attr)

\* C10 (SpecPanel): no two categories parse_unit_panel returns have the same
\* non-null category_id.
C10_Claim ==
    pc = "parsed" =>
        \A i, j \in 1..Len(result) :
            (i # j /\ result[i].category_id # None)
                => result[i].category_id # result[j].category_id

\* C11 (Spec): the nutrition cache only grows, and only on success.  No step
\* removes or changes an entry.  The cache changes only in a step where
\* fetch_nutrition missed, its request succeeded and the id's label was added.
\* A fetch_nutrition call whose request used up its retries raises, leaves the
\* cache as it was and leaves the id a miss.  The except clause of a failed
\* venue leaves the cache as it was, and an item of a later venue whose id is
\* in the cache gets the cached label with no request.
C11_CacheGrowsOnSuccess ==
    [][ /\ \A e \in nutrition_cache : e \in nutrition_cache'
        /\ nutrition_cache' # nutrition_cache
             => /\ last'.op = "item" /\ last'.fetched /\ ~last'.raised
                /\ ~InCache(Get(last'.detail_id), nutrition_cache)
                /\ Len(label_calls') = Len(label_calls) + 1
                /\ label_calls'[Len(label_calls')]
                     = [id |-> Get(last'.detail_id), ok |-> TRUE]
                /\ Cardinality(nutrition_cache')
                     = Cardinality(nutrition_cache) + 1
                /\ InCache(Get(last'.detail_id), nutrition_cache')
        /\ (last'.op = "item" /\ last'.raised)
             => /\ nutrition_cache' = nutrition_cache
                /\ ~InCache(Get(last'.detail_id), nutrition_cache')
                /\ Len(label_calls') = Len(label_calls) + 1
                /\ label_calls'[Len(label_calls')]
                     = [id |-> Get(last'.detail_id), ok |-> FALSE]
                /\ pc' = "raised"
        /\ pc = "raised" => nutrition_cache' = nutrition_cache
        /\ (/\ last'.op = "item" /\ last'.fetched
            /\ InCache(Get(last'.detail_id), nutrition_cache)
            /\ \E k \in 1..Len(dataset_units) :
                  "error" \in DOMAIN dataset_units[k])
             => /\ label_calls' = label_calls
                /\ LET items == categories'[last'.at].items
                   IN  items[Len(items)].nutrition
                         = CacheGet(Get(last'.detail_id), nutrition_cache)
      ]_vars

\* the first venue cached one label and then failed on another id; the second
\* venue's item with the first id was served from the cache
C11_Witness ==
    /\ idx = 2
    /\ Len(dataset_units) = 1 /\ "error" \in DOMAIN dataset_units[1]
    /\ Len(label_calls) = 2
    /\ label_calls[1].ok /\ ~label_calls[2].ok
    /\ label_calls[1].id # label_calls[2].id
    /\ last.op = "item" /\ last.fetched /\ ~last.raised /\ ~last.slept
    /\ Get(last.detail_id) = label_calls[1].id
    /\ InCache(label_calls[1].id, nutrition_cache)
    /\ ~InCache(label_calls[2].id, nutrition_cache)
    /\ Cardinality(nutrition_cache) = 1

====
